---- MODULE Spec2Model ----
(***************************************************************************)
(* Model of the WebSocket provider of frontend/src/hooks/useWebSocket.tsx: *)
(* one provider instance with its two pieces of React state (isConnected,  *)
(* messages), its two refs (wsRef, reconnectTimeoutRef), the browser       *)
(* WebSocket objects it has created and the timers it has scheduled.       *)
(* Every browser task (a consumer call, a socket event, a timer callback)  *)
(* is one action: JavaScript runs each of them to completion.              *)
(* The session provider of frontend/src/hooks/useAuth.tsx is modelled with *)
(* its React state (user, isLoading), the access_token entry of            *)
(* localStorage, the Authorization default header of the API client of     *)
(* frontend/src/services/api.ts and the requests that are in flight.       *)
(***************************************************************************)
EXTENDS Integers, Sequences, FiniteSets, TLC

\* ---------------------------------------------------------------- bounds
MaxSockets == 3
\* The sockets of a run that also carries frames or outbound messages.
MaxDataSockets == 2
MaxFrames == 3
MaxSends == 2
\* The requests that consumers of the session provider start in a run.
MaxCalls == 3

\* The capacity N that the bounded-buffer property is stated for; the source
\* sets none. It is kept below the number of frames a run delivers.
Capacity == MaxFrames - 1

\* ---------------------------------------------------------------- state
VARIABLES
    isConnected,          \* useState(false), line 32
    messages,             \* useState([]), line 33
    wsRef,                \* useRef(null), line 34: 0 is null, else index in sockets
    reconnectTimeoutRef,  \* useRef(null), line 35: 0 is null, else index in timers
    sockets,              \* every WebSocket created so far, in creation order
    timers,               \* every timer created by setTimeout so far
    mounted,              \* the provider is mounted
    disconnected,         \* history: disconnect() ran and no consumer connect() since
    requested,            \* history: the agentId of the last consumer connect()
    received,             \* history: inbound frames in arrival order
    wire,                 \* history: outbound frames handed to ws.send, in order
    sendLog,              \* history: one entry per sendMessage call
    user,                 \* useAuth.tsx useState(null), line 39
    isLoading,            \* useAuth.tsx useState(true), line 40
    token,                \* localStorage 'access_token'
    authHeader,           \* apiClient.defaults.headers.common['Authorization']
    inflight,             \* the requests awaiting their response
    calls,                \* the number of requests started so far
    navigating,           \* window.location.href was assigned, the page not yet replaced
    settled               \* the call that settled last, and whether it threw to its caller

wsVars == <<isConnected, messages, wsRef, reconnectTimeoutRef, sockets, timers,
            mounted, disconnected, requested, received, wire, sendLog>>

authVars == <<user, isLoading, token, authHeader, inflight, calls, navigating,
              settled>>

vars == <<wsVars, authVars>>

\* null, for the user, the stored token and the Authorization header.
Null == "null"

\* The agentId argument of connect: None stands for undefined.
None == "none"
AgentIds == {None, "a1"}

\* ---------------------------------------------------------------- wire format
\* Frames are sequences of tokens. Payloads are the digits below.
DigitStr == <<"1", "2", "3", "4", "5", "6">>

IsDigit(tok) == \E n \in 1..Len(DigitStr) : DigitStr[n] = tok

DigitVal(tok) == CHOOSE n \in 1..Len(DigitStr) : DigitStr[n] = tok

\* JSON.parse restricted to the frames of this model: an object with one
\* member whose value is a digit; anything else throws SyntaxError
\* (ok = FALSE).
JSONParse(f) ==
    IF Len(f) = 3 /\ f[1] = "{" /\ f[3] = "}" /\ IsDigit(f[2])
    THEN [ok |-> TRUE, value |-> [type |-> "log", data |-> DigitVal(f[2])]]
    ELSE [ok |-> FALSE, value |-> [type |-> "error", data |-> 0]]

\* JSON.stringify of a message object whose data is n.
JSONStringify(n) == <<"{", DigitStr[n], "}">>

\* The frames the server may send as the n-th frame of a run: a well-formed
\* object and a truncated one.
InboundFrames(n) ==
    { <<"{", DigitStr[n], "}">>, <<"{", DigitStr[n]>> }

\* ---------------------------------------------------------------- helpers
wsUrl(agentId) ==
    IF agentId # None THEN <<"/api/agents/", agentId, "/ws">> ELSE <<"/api/ws">>

SockIds == 1..Len(sockets)
TimerIds == 1..Len(timers)

readyState(s) == sockets[s].readyState

\* wsRef.current?.readyState === WebSocket.OPEN
CurrentIsOpen == wsRef # 0 /\ readyState(wsRef) = "OPEN"

\* clearTimeout(handle): a pending timer is cancelled, any other is left alone.
clearTimeout(ts, h) ==
    IF h # 0 /\ ts[h].state = "pending"
    THEN [ts EXCEPT ![h].state = "cancelled"]
    ELSE ts

\* WebSocket.close(): CONNECTING and OPEN become CLOSING; the close event
\* is delivered later. CLOSING and CLOSED are left alone.
wsCloseCall(ss, s) ==
    IF ss[s].readyState \in {"CONNECTING", "OPEN"}
    THEN [ss EXCEPT ![s].readyState = "CLOSING"]
    ELSE ss

\* ---------------------------------------------------------------- Init
\* The WebSocket provider after construction, lines 32-35.
WsInit ==
    /\ isConnected = FALSE
    /\ messages = <<>>
    /\ wsRef = 0
    /\ reconnectTimeoutRef = 0
    /\ sockets = <<>>
    /\ timers = <<>>
    /\ mounted = TRUE
    /\ disconnected = FALSE
    /\ requested = None
    /\ received = <<>>
    /\ wire = <<>>
    /\ sendLog = <<>>

\* A request: its number, the authApi operation, the Authorization header it
\* was sent with (request interceptor, api.ts lines 16-22, and the default
\* header) and, as history, whether logout() has run since it was started.
Request(id, op) ==
    [id |-> id, op |-> op,
     auth |-> IF token # Null THEN token ELSE authHeader,
     stale |-> FALSE]

\* The requests in flight after the mount effect, useAuth.tsx lines 45-53,
\* in a page whose localStorage holds the token stored: with a token,
\* checkAuthStatus() is awaiting getCurrentUser().
MountRequests(stored) ==
    IF stored # Null
    THEN {[id |-> 0, op |-> "check", auth |-> stored, stale |-> FALSE]}
    ELSE {}

\* The session provider after its mount effect, useAuth.tsx lines 39-53: with
\* a stored token the header is set and isLoading stays true until the check
\* settles; without one isLoading is false.
AuthMounted(stored) ==
    /\ user = Null
    /\ token = stored
    /\ authHeader = stored
    /\ isLoading = (stored # Null)
    /\ inflight = MountRequests(stored)
    /\ calls = 0
    /\ navigating = FALSE
    /\ settled = [op |-> None, threw |-> FALSE]

\* A page opened in a browser that holds no token.
Init == WsInit /\ AuthMounted(Null)

\* A page opened in a browser that holds no token, or the token "t0" of an
\* earlier session.
StoredTokens == {Null, "t0"}

InitAuth == WsInit /\ \E stored \in StoredTokens : AuthMounted(stored)

\* ---------------------------------------------------------------- connect
\* connect(agentId), lines 37-84: the writes to wsRef and the new WebSocket.
\* via is history: the timer whose callback made the call, 0 for a consumer.
connect(agentId, via) ==
    IF CurrentIsOpen
    THEN UNCHANGED <<sockets, wsRef>>
    ELSE /\ sockets' = Append(sockets, [url |-> wsUrl(agentId),
                                        agentId |-> agentId,
                                        readyState |-> "CONNECTING",
                                        via |-> via])
         /\ wsRef' = Len(sockets) + 1

\* A consumer calls connect(agentId). A run creates at most cap sockets.
Connect(agentId, cap) ==
    /\ mounted
    /\ CurrentIsOpen \/ Len(sockets) < cap
    /\ connect(agentId, 0)
    /\ disconnected' = FALSE
    /\ requested' = agentId
    /\ UNCHANGED <<isConnected, messages, reconnectTimeoutRef, timers, mounted,
                   received, wire, sendLog,
                   authVars>>

\* The retry timer fires: setTimeout(() => connect(agentId), 5000), lines 72-74.
TimerFire(t, cap) ==
    /\ t \in TimerIds
    /\ timers[t].state = "pending"
    /\ CurrentIsOpen \/ Len(sockets) < cap
    /\ timers' = [timers EXCEPT ![t].state = "fired"]
    /\ connect(timers[t].agentId, t)
    /\ UNCHANGED <<isConnected, messages, reconnectTimeoutRef, mounted,
                   disconnected, received, wire, sendLog,
                   requested, authVars>>

\* ---------------------------------------------------------------- socket events
\* Variant of onopen that cancels the timer but keeps its handle.
onopenKeepsHandle(s) ==
    /\ isConnected' = TRUE
    /\ timers' = clearTimeout(timers, reconnectTimeoutRef)
    /\ reconnectTimeoutRef' = reconnectTimeoutRef

\* ws.onopen, lines 48-55.
onopen(s) ==
    /\ isConnected' = TRUE
    /\ timers' = clearTimeout(timers, reconnectTimeoutRef)
    /\ reconnectTimeoutRef' = 0

\* The open event of socket s is delivered.
TransportOpen(s) ==
    /\ s \in SockIds
    /\ readyState(s) = "CONNECTING"
    /\ sockets' = [sockets EXCEPT ![s].readyState = "OPEN"]
    /\ onopen(s)
    /\ UNCHANGED <<messages, wsRef, mounted, disconnected,
                   received, wire, sendLog,
                   requested, authVars>>

\* Variant of onclose whose retry calls connect() without the agentId.
oncloseRetryGlobal(s) ==
    /\ isConnected' = FALSE
    /\ IF reconnectTimeoutRef = 0
       THEN /\ timers' = Append(timers, [agentId |-> None,
                                         state |-> "pending",
                                         by |-> s])
            /\ reconnectTimeoutRef' = Len(timers) + 1
       ELSE UNCHANGED <<timers, reconnectTimeoutRef>>

\* Variant of onclose without the test of line 71: every closure schedules
\* a retry.
oncloseUnguarded(s) ==
    /\ isConnected' = FALSE
    /\ timers' = Append(timers, [agentId |-> sockets[s].agentId,
                                 state |-> "pending",
                                 by |-> s])
    /\ reconnectTimeoutRef' = Len(timers) + 1

\* ws.onclose, lines 66-76. The timer keeps the agentId of the connect call
\* that created s; by is history: the socket whose closure set the timer.
onclose(s) ==
    /\ isConnected' = FALSE
    /\ IF reconnectTimeoutRef = 0
       THEN /\ timers' = Append(timers, [agentId |-> sockets[s].agentId,
                                         state |-> "pending",
                                         by |-> s])
            /\ reconnectTimeoutRef' = Len(timers) + 1
       ELSE UNCHANGED <<timers, reconnectTimeoutRef>>

\* The close event of socket s is delivered without an error event: the
\* server closed an open connection, or a close() call has completed.
TransportClosed(s) ==
    /\ s \in SockIds
    /\ readyState(s) \in {"OPEN", "CLOSING"}
    /\ sockets' = [sockets EXCEPT ![s].readyState = "CLOSED"]
    /\ onclose(s)
    /\ UNCHANGED <<messages, wsRef, mounted, disconnected,
                   received, wire, sendLog,
                   requested, authVars>>

\* The connection of socket s fails: the browser fires error and then close
\* in one task. ws.onerror (lines 78-81) writes only isConnected = false,
\* which ws.onclose writes again.
TransportFailed(s) ==
    /\ s \in SockIds
    /\ readyState(s) \in {"CONNECTING", "OPEN"}
    /\ sockets' = [sockets EXCEPT ![s].readyState = "CLOSED"]
    /\ onclose(s)
    /\ UNCHANGED <<messages, wsRef, mounted, disconnected,
                   received, wire, sendLog,
                   requested, authVars>>

\* Variant of onmessage with a bounded buffer: the oldest message is evicted
\* when the buffer is at Capacity.
onmessageEvicting(f) ==
    IF JSONParse(f).ok
    THEN IF Len(messages) >= Capacity
         THEN Append(Tail(messages), JSONParse(f).value)
         ELSE Append(messages, JSONParse(f).value)
    ELSE messages

\* Variant of onmessage that puts the new message in front: [message, ...prev].
onmessagePrepending(f) ==
    IF JSONParse(f).ok
    THEN <<JSONParse(f).value>> \o messages
    ELSE messages

\* Variant of onmessage without the try/catch discipline: the result of a
\* failed parse is stored too.
onmessageKeepingBad(f) ==
    Append(messages, JSONParse(f).value)

\* ws.onmessage, lines 57-64: the new value of the messages state.
onmessage(f) ==
    IF JSONParse(f).ok
    THEN Append(messages, JSONParse(f).value)
    ELSE messages

\* A message event of socket s is delivered with frame f. The browser
\* delivers message events only while the socket is OPEN.
TransportMessage(s, f) ==
    /\ s \in SockIds
    /\ readyState(s) = "OPEN"
    /\ Len(received) < MaxFrames
    /\ f \in InboundFrames(Len(received) + 1)
    /\ messages' = onmessage(f)
    /\ received' = Append(received, [sock |-> s, frame |-> f])
    /\ UNCHANGED <<isConnected, wsRef, reconnectTimeoutRef, sockets, timers,
                   mounted, disconnected, wire, sendLog,
                   requested, authVars>>

\* ---------------------------------------------------------------- disconnect
\* Variant of disconnect that drops the timer handle without clearTimeout.
disconnectKeepsTimer ==
    /\ timers' = timers
    /\ reconnectTimeoutRef' = 0
    /\ sockets' = IF wsRef # 0 THEN wsCloseCall(sockets, wsRef) ELSE sockets
    /\ wsRef' = 0
    /\ isConnected' = FALSE

\* disconnect(), lines 86-97.
disconnect ==
    /\ timers' = clearTimeout(timers, reconnectTimeoutRef)
    /\ reconnectTimeoutRef' = 0
    /\ sockets' = IF wsRef # 0 THEN wsCloseCall(sockets, wsRef) ELSE sockets
    /\ wsRef' = 0
    /\ isConnected' = FALSE

\* A consumer calls disconnect().
Disconnect ==
    /\ mounted
    /\ disconnect
    /\ disconnected' = TRUE
    /\ UNCHANGED <<messages, mounted, received, wire, sendLog,
                   requested, authVars>>

\* The provider unmounts: the effect cleanup of lines 107-111 calls disconnect().
Unmount ==
    /\ mounted
    /\ disconnect
    /\ mounted' = FALSE
    /\ disconnected' = TRUE
    /\ UNCHANGED <<messages, received, wire, sendLog,
                   requested, authVars>>

\* ---------------------------------------------------------------- send
\* Variant of sendMessage that tests only that a socket is held, not that it
\* is OPEN.
sendMessageIfHeld(n) ==
    IF wsRef # 0
    THEN Append(wire, [sock |-> wsRef, frame |-> JSONStringify(n)])
    ELSE wire

\* sendMessage(message), lines 99-105: the frames handed to ws.send.
sendMessage(n) ==
    IF CurrentIsOpen
    THEN Append(wire, [sock |-> wsRef, frame |-> JSONStringify(n)])
    ELSE wire

\* Variant of sendOutcome without the optional chaining of line 100: reading
\* readyState of a null wsRef.current throws.
sendOutcomeUnchained ==
    IF wsRef = 0 THEN "threw"
    ELSE IF readyState(wsRef) = "OPEN" THEN "sent" ELSE "warned"

\* sendMessage(message), lines 99-105: how the call ends for its caller. It
\* returns in both branches, after ws.send or after console.warn.
sendOutcome ==
    IF CurrentIsOpen THEN "sent" ELSE "warned"

\* A consumer calls sendMessage with the n-th message of the run.
Send ==
    /\ mounted
    /\ Len(sendLog) < MaxSends
    /\ wire' = sendMessage(Len(sendLog) + 1)
    /\ sendLog' = Append(sendLog, [open |-> CurrentIsOpen,
                                   sock |-> wsRef,
                                   outcome |-> sendOutcome,
                                   connectedBefore |-> sockets # <<>>])
    /\ UNCHANGED <<isConnected, messages, wsRef, reconnectTimeoutRef, sockets,
                   timers, mounted, disconnected, received,
                   requested, authVars>>

\* ---------------------------------------------------------------- session
\* The operations of the session provider that a consumer starts and that
\* await a response.
ConsumerOps == {"login", "register", "refresh"}

\* The HTTP statuses of a failed request: 401, and any other failure.
Statuses == {401, 500}

\* A consumer calls login, register or refreshToken (useAuth.tsx lines 68-70,
\* 82-84, 98-100): the request is sent and the call awaits its response.
Call(op) ==
    /\ calls < MaxCalls
    /\ calls' = calls + 1
    /\ inflight' = inflight \cup {Request(calls + 1, op)}
    /\ UNCHANGED <<user, isLoading, token, authHeader, navigating, settled,
                   wsVars>>

\* The server answers only a request that carries a credential for
\* /api/auth/me and /api/auth/refresh.
MayResolve(c) == c.op \in {"check", "refresh"} => c.auth # Null

\* The token that the server issues at login and refresh.
Issued == "t1"

\* Request c is answered with success: the code after the await.
\* checkAuthStatus lines 57-58 and 63-65, login lines 71-75, register line
\* 85, refreshToken lines 101-105.
Resolved(c) ==
    /\ c \in inflight
    /\ MayResolve(c)
    /\ inflight' = inflight \ {c}
    /\ user' = "user"
    /\ token' = IF c.op \in {"login", "refresh"} THEN Issued ELSE token
    /\ authHeader' = IF c.op \in {"login", "refresh"} THEN Issued
                                                      ELSE authHeader
    /\ isLoading' = IF c.op = "check" THEN FALSE ELSE isLoading
    /\ settled' = [op |-> c.op, threw |-> FALSE]
    /\ UNCHANGED <<calls, navigating, wsVars>>

\* The catch blocks of login (line 78), register (line 88) and refreshToken
\* (line 109) throw the error again; the one of checkAuthStatus (lines 59-62)
\* does not.
Rethrows(op) == op \in ConsumerOps

\* Request c fails with status st. The response interceptor (api.ts lines
\* 30-39) runs first: on 401 it removes the stored token and assigns
\* window.location.href. Then the catch block of the caller runs:
\* checkAuthStatus lines 59-65, login lines 76-79, register lines 86-89,
\* refreshToken lines 106-110 (which calls logout()).
Rejected(c, st) ==
    /\ c \in inflight
    /\ inflight' = IF c.op = "refresh"
                   THEN {[r EXCEPT !.stale = TRUE] : r \in inflight \ {c}}
                   ELSE inflight \ {c}
    /\ navigating' = (navigating \/ st = 401)
    /\ token' = IF st = 401 \/ c.op \in {"check", "refresh"} THEN Null
                                                             ELSE token
    /\ authHeader' = IF c.op \in {"check", "refresh"} THEN Null ELSE authHeader
    /\ user' = IF c.op = "refresh" THEN Null ELSE user
    /\ isLoading' = IF c.op = "check" THEN FALSE ELSE isLoading
    /\ settled' = [op |-> c.op, threw |-> Rethrows(c.op)]
    /\ UNCHANGED <<calls, wsVars>>

\* logout(), useAuth.tsx lines 92-96. The requests in flight are marked as
\* started before it.
Logout ==
    /\ token' = Null
    /\ authHeader' = Null
    /\ user' = Null
    /\ inflight' = {[c EXCEPT !.stale = TRUE] : c \in inflight}
    /\ UNCHANGED <<isLoading, calls, navigating, settled, wsVars>>

\* The navigation to /login that the response interceptor started replaces
\* the page: the requests of the old page are abandoned and the providers
\* mount again, the session provider with what localStorage holds. The
\* WebSocket provider mounts in its initial state, which it has not left in
\* the runs of NextAuth.
PageLoad ==
    /\ navigating
    /\ navigating' = FALSE
    /\ user' = Null
    /\ authHeader' = token
    /\ isLoading' = (token # Null)
    /\ inflight' = MountRequests(token)
    /\ UNCHANGED <<token, calls, settled, wsVars>>

\* ---------------------------------------------------------------- Next
\* The connection lifecycle with consumers that connect to the scopes ids,
\* in runs of at most cap sockets: consumer calls, socket lifecycle events
\* and timers.
Lifecycle(ids, cap) ==
    \/ \E a \in ids : Connect(a, cap)
    \/ \E t \in TimerIds : TimerFire(t, cap)
    \/ \E s \in SockIds : TransportOpen(s)
    \/ \E s \in SockIds : TransportClosed(s)
    \/ \E s \in SockIds : TransportFailed(s)
    \/ Disconnect
    \/ Unmount

Next == Lifecycle(AgentIds, MaxSockets)

Spec == Init /\ [][Next]_vars

\* The lifecycle of the global channel together with inbound frames.
NextRecv ==
    \/ Lifecycle({None}, MaxDataSockets)
    \/ \E s \in SockIds : \E f \in InboundFrames(Len(received) + 1) :
           TransportMessage(s, f)

SpecRecv == Init /\ [][NextRecv]_vars

\* The lifecycle of the global channel together with outbound messages.
NextSend ==
    \/ Lifecycle({None}, MaxDataSockets)
    \/ Send

SpecSend == Init /\ [][NextSend]_vars

\* The lifecycle of both channels together with inbound frames.
NextScopes ==
    \/ Lifecycle(AgentIds, MaxDataSockets)
    \/ \E s \in SockIds : \E f \in InboundFrames(Len(received) + 1) :
           TransportMessage(s, f)

SpecScopes == Init /\ [][NextScopes]_vars

\* The session provider: consumer calls, responses, logout and page loads.
NextAuth ==
    \/ \E op \in ConsumerOps : Call(op)
    \/ \E c \in inflight : Resolved(c)
    \/ \E c \in inflight : \E st \in Statuses : Rejected(c, st)
    \/ Logout
    \/ PageLoad

SpecAuth == InitAuth /\ [][NextAuth]_vars

TypeOK ==
    /\ isConnected \in BOOLEAN
    /\ wsRef \in 0..Len(sockets)
    /\ reconnectTimeoutRef \in 0..Len(timers)
    /\ Len(sockets) <= MaxSockets
    /\ Len(received) <= MaxFrames
    /\ Len(sendLog) <= MaxSends

\* ---------------------------------------------------------------- properties
PendingTimers == {t \in TimerIds : timers[t].state = "pending"}

LiveSockets(a) ==
    {s \in SockIds : sockets[s].agentId = a
                     /\ readyState(s) \in {"CONNECTING", "OPEN"}}

\* C1: after disconnect() and until a consumer calls connect() again, no
\* reconnect timer is pending (so none is scheduled and none can fire) and
\* no step creates a WebSocket.
C1_DisconnectIsTerminal ==
    [][disconnected' =>
          /\ PendingTimers' = {}
          /\ (disconnected => Len(sockets') = Len(sockets))]_vars

\* C2: while disconnect() has not been called the client never rests with
\* every socket it created closed and no retry timer pending.
C2_ClosureAlwaysRetried ==
    (~disconnected /\ sockets # <<>>
        /\ \A s \in SockIds : readyState(s) = "CLOSED")
    => PendingTimers # {}

\* C3: an open, close, error or message event of a socket that is not the
\* current one (wsRef) changes neither isConnected, nor messages, nor the
\* reconnect timer.
C3_SupersededEventsDiscarded ==
    [][\A s \in SockIds :
          (/\ s # wsRef
           /\ \/ TransportOpen(s)
              \/ TransportClosed(s)
              \/ TransportFailed(s)
              \/ \E f \in InboundFrames(Len(received) + 1) :
                     TransportMessage(s, f))
          => /\ isConnected' = isConnected
             /\ messages' = messages
             /\ reconnectTimeoutRef' = reconnectTimeoutRef
             /\ timers' = timers]_vars

\* C4: a consumer's connect() while the current socket is OPEN or CONNECTING
\* creates no socket and changes no state of the provider.
C4_ConnectIdempotent ==
    [][\A a \in AgentIds :
          (/\ Connect(a, MaxSockets)
           /\ wsRef # 0
           /\ readyState(wsRef) \in {"OPEN", "CONNECTING"})
          => /\ sockets' = sockets
             /\ wsRef' = wsRef
             /\ isConnected' = isConnected
             /\ reconnectTimeoutRef' = reconnectTimeoutRef
             /\ timers' = timers]_vars

\* C5: for each scope at most one socket is CONNECTING or OPEN.
C5_OneTransportPerScope ==
    \A a \in AgentIds : Cardinality(LiveSockets(a)) <= 1

\* The numbers of the sendMessage calls whose frames reached ws.send.
Transmitted == {JSONParse(wire[k].frame).value.data : k \in 1..Len(wire)}

RECURSIVE Parsed(_)
Parsed(log) ==
    IF log = <<>> THEN <<>>
    ELSE LET front == Parsed(SubSeq(log, 1, Len(log) - 1))
             p == JSONParse(log[Len(log)].frame)
         IN IF p.ok THEN Append(front, p.value) ELSE front

LastN(q, n) == IF Len(q) <= n THEN q ELSE SubSeq(q, Len(q) - n + 1, Len(q))

FramesOn(s) == {n \in 1..Len(received) : received[n].sock = s}

FailuresOn(s) == {n \in FramesOn(s) : ~JSONParse(received[n].frame).ok}

\* C8: the messages exposed are exactly the successfully parsed frames,
\* each once and in arrival order: positions in the buffer increase strictly
\* with arrival, every message is the parse of the frame it came from, and
\* for each connection their number is the number of its frames minus the
\* number of its frames that failed to parse.
C8_ExactlyParsedFramesInOrder ==
    /\ \A i, j \in 1..Len(messages) :
          i < j => messages[i].data < messages[j].data
    /\ \A i \in 1..Len(messages) :
          /\ messages[i].data \in 1..Len(received)
          /\ JSONParse(received[messages[i].data].frame)
                = [ok |-> TRUE, value |-> messages[i]]
    /\ \A s \in SockIds :
          Cardinality({i \in 1..Len(messages) :
                         received[messages[i].data].sock = s})
            = Cardinality(FramesOn(s)) - Cardinality(FailuresOn(s))

\* One connection has received three frames of which one failed to parse.
C8_Witness ==
    \E s \in SockIds :
        /\ Cardinality(FramesOn(s)) = 3
        /\ Cardinality(FailuresOn(s)) = 1
        /\ Len(messages) = 2

\* C9: when a socket closes while disconnect() has not been called, the
\* client is not connected afterwards, a retry timer is pending and the
\* buffer is unchanged; when a socket then opens the client is connected and
\* the buffer is unchanged.
C9_ReconnectKeepsBuffer ==
    [][\A s \in SockIds :
          /\ ((TransportClosed(s) \/ TransportFailed(s)) /\ ~disconnected)
              => /\ ~isConnected'
                 /\ PendingTimers' # {}
                 /\ messages' = messages
          /\ (TransportOpen(s) /\ ~disconnected)
              => /\ isConnected'
                 /\ messages' = messages]_vars

\* C10: a frame that fails to parse changes neither the buffer, nor
\* isConnected, nor the current socket, nor the reconnect timer, nor any
\* socket's state; a frame that parses after it on the same connection is
\* in the buffer.
C10_BadFrameDropped ==
    /\ [][\A s \in SockIds : \A f \in InboundFrames(Len(received) + 1) :
             (TransportMessage(s, f) /\ ~JSONParse(f).ok)
             => /\ messages' = messages
                /\ isConnected' = isConnected
                /\ wsRef' = wsRef
                /\ reconnectTimeoutRef' = reconnectTimeoutRef
                /\ timers' = timers
                /\ sockets' = sockets]_vars
    /\ [](\A m, n \in 1..Len(received) :
             (/\ m < n
              /\ received[m].sock = received[n].sock
              /\ ~JSONParse(received[m].frame).ok
              /\ JSONParse(received[n].frame).ok)
             => \E i \in 1..Len(messages) :
                    messages[i] = JSONParse(received[n].frame).value)

\* A frame failed to parse on an open connection and a later frame of the
\* same connection was delivered, the client still being connected.
C10_Witness ==
    /\ Len(received) = 2
    /\ received[1].sock = received[2].sock
    /\ ~JSONParse(received[1].frame).ok
    /\ JSONParse(received[2].frame).ok
    /\ messages = <<JSONParse(received[2].frame).value>>
    /\ isConnected
    /\ wsRef = received[1].sock
    /\ readyState(wsRef) = "OPEN"

\* C11: a consumer's connect() while the session provider holds no stored
\* access token or no authenticated user opens no transport.
C11_ConnectNeedsCredential ==
    [][\A a \in AgentIds :
          (Connect(a, MaxSockets) /\ (token = Null \/ user = Null))
          => sockets' = sockets]_vars

FrameScope(i) == sockets[received[messages[i].data].sock].agentId

\* C13: a frame received on a socket of one scope is never in the buffer
\* read for another scope (the scope of the current socket), and the closure
\* of a socket of one scope never changes isConnected while the current
\* socket is of another scope.
C13_ScopesIndependent ==
    /\ [](wsRef # 0 =>
            \A i \in 1..Len(messages) : FrameScope(i) = sockets[wsRef].agentId)
    /\ [][\A s \in SockIds :
             (/\ TransportClosed(s) \/ TransportFailed(s)
              /\ wsRef # 0
              /\ sockets[s].agentId # sockets[wsRef].agentId)
             => isConnected' = isConnected]_vars

\* C14: a consumer's connect(a) while no socket of scope a is CONNECTING or
\* OPEN creates a socket at the endpoint of a, whatever the state of the
\* sockets of other scopes.
C14_ConnectPerScope ==
    [][\A a \in AgentIds :
          (Connect(a, MaxSockets) /\ LiveSockets(a) = {})
          => /\ Len(sockets') = Len(sockets) + 1
             /\ sockets'[Len(sockets')].url = wsUrl(a)
             /\ wsRef' = Len(sockets')]_vars

\* C15: a retry timer carries the scope of the socket whose closure set it,
\* and the socket that its callback creates is opened at the endpoint of
\* that scope, whatever connect() calls came in between.
C15_RetrySameScope ==
    /\ \A t \in TimerIds : timers[t].agentId = sockets[timers[t].by].agentId
    /\ \A s \in SockIds :
          sockets[s].via # 0
          => sockets[s].url = wsUrl(sockets[timers[sockets[s].via].by].agentId)

\* The socket of an agent closed, a consumer connected to the global channel
\* and the retry then opened a socket for the agent.
C15_Witness ==
    /\ Len(sockets) = 3
    /\ sockets[1].agentId = "a1" /\ readyState(1) = "CLOSED"
    /\ sockets[2].agentId = None /\ sockets[2].via = 0
    /\ sockets[3].via # 0 /\ timers[sockets[3].via].by = 1
    /\ sockets[3].url = wsUrl("a1")

\* C16: right after disconnect(), called by a consumer or by the unmount
\* cleanup, from any state: isConnected is false, no timer is pending and no
\* handle is held, wsRef is null, and the socket that was current has been
\* asked to close.
C16_DisconnectResets ==
    [][(Disconnect \/ Unmount)
          => /\ ~isConnected'
             /\ PendingTimers' = {}
             /\ reconnectTimeoutRef' = 0
             /\ wsRef' = 0
             /\ wsRef # 0 =>
                   sockets'[wsRef].readyState \in {"CLOSING", "CLOSED"}]_vars

\* disconnect() has run while a retry was pending and a socket was held:
\* the timer is cancelled and the socket is closing.
C16_Witness ==
    /\ disconnected
    /\ wsRef = 0 /\ reconnectTimeoutRef = 0 /\ ~isConnected
    /\ Len(timers) = 1 /\ timers[1].state = "cancelled"
    /\ Len(sockets) = 2 /\ readyState(2) = "CLOSING"

\* C17: when the open event of the current socket is handled, isConnected
\* becomes true, a pending retry timer is cancelled and the handle is
\* cleared; with the handle cleared, a closure schedules a fresh retry and
\* holds its handle.
C17_OpenClearsTimer ==
    /\ [][\A s \in SockIds :
             (TransportOpen(s) /\ s = wsRef)
             => /\ isConnected'
                /\ reconnectTimeoutRef' = 0
                /\ PendingTimers' = {}]_vars
    /\ [][\A s \in SockIds :
             (/\ TransportClosed(s) \/ TransportFailed(s)
              /\ reconnectTimeoutRef = 0)
             => /\ Len(timers') = Len(timers) + 1
                /\ reconnectTimeoutRef' = Len(timers')
                /\ PendingTimers' = {Len(timers')}]_vars

\* A retry was pending when the current socket opened: it is cancelled, the
\* handle is cleared, and a later closure has scheduled a second retry.
C17_Witness ==
    /\ ~disconnected
    /\ Len(sockets) = 2 /\ sockets[2].via = 0
    /\ Len(timers) = 2
    /\ timers[1].state = "cancelled"
    /\ timers[2].state = "pending" /\ timers[2].by = 2
    /\ reconnectTimeoutRef = 2

\* C18: at most one retry timer is pending.
C18_OneTimerPending ==
    Cardinality(PendingTimers) <= 1

\* Two sockets have closed, the second while the retry of the first was
\* pending: one timer exists and it is pending.
C18_Witness ==
    /\ Len(sockets) >= 2
    /\ readyState(1) = "CLOSED" /\ readyState(2) = "CLOSED"
    /\ Len(timers) = 1 /\ timers[1].state = "pending"
    /\ reconnectTimeoutRef = 1

\* C19: isConnected is true exactly when the current socket exists and is
\* OPEN.
C19_ConnectedIffCurrentOpen ==
    isConnected <=> CurrentIsOpen

\* isAuthenticated, useAuth.tsx line 42.
isAuthenticated == user # Null

\* C20: whenever isAuthenticated is true an access token is stored in
\* localStorage.
C20_AuthenticatedHasToken ==
    isAuthenticated => token # Null

\* The session is logged out: no user and no stored access token.
LoggedOut == user = Null /\ token = Null

\* C21: once logout() has run, the completion of a login, refreshToken or
\* mount-time auth check that was in flight when it ran does not log the user
\* back in: a logged-out session stays logged out across the success of a
\* request started before the logout.
C21_LogoutIsFinal ==
    [][\A c \in inflight :
          (c.stale /\ LoggedOut /\ Resolved(c)) => LoggedOut']_vars

\* C22: when refreshToken() fails, the stored access token is removed, the
\* Authorization header is cleared, user is null and the error is thrown to
\* the caller; when login() fails, the error is thrown to the caller and the
\* stored token and user are as they were before the failure.
C22_FailureOutcomes ==
    [][\A c \in inflight : \A st \in Statuses :
          Rejected(c, st) =>
              /\ c.op = "refresh" =>
                     /\ token' = Null
                     /\ authHeader' = Null
                     /\ user' = Null
                     /\ settled'.threw
              /\ c.op = "login" =>
                     /\ settled'.threw
                     /\ token' = token
                     /\ user' = user]_vars
====
